---- MODULE Spec2Model ----
(***************************************************************************)
(* Model of homeassistant/helpers/restore_state.py: the restore cache that *)
(* is lazily loaded under an asyncio lock during startup, its removal at   *)
(* the host start event, and the scheduler that dumps the live states.     *)
(* One action is one run of a coroutine or callback between two awaits of  *)
(* the single-threaded event loop.                                         *)
(***************************************************************************)
EXTENDS Integers, Sequences, FiniteSets, TLC

\* ---------------------------------------------------------------- bounds
NumCallers == 2          \* concurrent async_get_last_state callers
MaxCalls == 2            \* calls issued in one behaviour
MaxTicks == 1            \* interval ticks delivered in one behaviour
MaxLen == 2              \* records in the snapshot found at process start

Callers == 1..NumCallers
Keys == {"a", "b"}
Vals == {"on", "off"}

\* ------------------------------------------------------------ data model
\* A stored record is the dict written by State.as_dict; a State object is
\* modelled as the tuple <<entity_id, state>>.
Dicts == [entity_id : Keys, state : Vals]

from_dict(d) == <<d.entity_id, d.state>>

as_dict(st) == [entity_id |-> st[1], state |-> st[2]]

\* "no prior state": the None returned by async_get_last_state
None == <<>>

EmptyMap == [k \in {} |-> None]

\* hass.states.async_all(): the live states of the current session
LiveStates == <<<<"a", "live">>>>

\* what Store.async_load finds: no file, an unreadable file, or a snapshot
NoFile == [kind |-> "none", data |-> <<>>]

Broken == [kind |-> "error", data |-> <<>>]

Snapshot(s) == [kind |-> "data", data |-> s]

Idle == [kind |-> "idle", data |-> <<>>]

\* A call that has returned: its key, the value returned or the exception
\* raised to the caller, what its own load read (Idle when it made none),
\* whether the window was open when it began and whether it began before
\* any load had completed; whether it was made through async_restore_state,
\* whether async_get_last_state was entered, and how many times
\* entity.async_restore_state was invoked.
NoReturn ==
    [seen |-> FALSE, key |-> "a", result |-> None, raised |-> FALSE,
     buf |-> Idle, open |-> TRUE, early |-> FALSE,
     via |-> FALSE, looked |-> FALSE, restored |-> 0]

Returned(k, r, x, b, o, e) ==
    [seen |-> TRUE, key |-> k, result |-> r, raised |-> x,
     buf |-> b, open |-> o, early |-> e,
     via |-> FALSE, looked |-> TRUE, restored |-> 0]

\* async_restore_state returns at its phase check: nothing was looked up
NotRestoring(k) ==
    [seen |-> TRUE, key |-> k, result |-> None, raised |-> FALSE,
     buf |-> Idle, open |-> FALSE, early |-> FALSE,
     via |-> TRUE, looked |-> FALSE, restored |-> 0]

\* "if not state: return", else "await entity.async_restore_state(...)":
\* the number of invocations of the entity's callback
Callbacks(state, raised) == IF raised \/ state = None THEN 0 ELSE 1

\* what the caller of async_get_last_state does with what it returned:
\* async_restore_state (v) hands a record to the entity
Deliver(v, rt) ==
    IF v THEN [rt EXCEPT !.via = TRUE,
                         !.restored = Callbacks(rt.result, rt.raised)]
    ELSE rt

SeqsUpTo(S, n) == UNION {[1..m -> S] : m \in 0..n}

InitialStores == {NoFile, Broken} \cup {Snapshot(s) : s \in SeqsUpTo(Dicts, MaxLen)}

\* dict.get(key): the value, or None when the key is missing
DictGet(m, k) == IF k \in DOMAIN m THEN m[k] ELSE None

\* (variant: the first record of the snapshot is left out)
RECURSIVE BuildCacheSkipsFirst(_)
BuildCacheSkipsFirst(states) ==
    IF states = <<>> THEN EmptyMap
    ELSE LET n == Len(states)
             front == BuildCacheSkipsFirst(SubSeq(states, 1, n - 1))
             d == states[n]
         IN IF n = 1 THEN front
            ELSE [k \in (DOMAIN front) \cup {d.entity_id} |->
                    IF k = d.entity_id THEN from_dict(d) ELSE front[k]]

\* (variant: an earlier record with the same key is kept)
RECURSIVE BuildCacheFirstWins(_)
BuildCacheFirstWins(states) ==
    IF states = <<>> THEN EmptyMap
    ELSE LET rest == BuildCacheFirstWins(Tail(states))
             d == Head(states)
         IN [k \in (DOMAIN rest) \cup {d.entity_id} |->
                IF k = d.entity_id THEN from_dict(d) ELSE rest[k]]

\* {state['entity_id']: State.from_dict(state) for state in states}:
\* a later record with the same key overwrites an earlier one
RECURSIVE BuildCache(_)
BuildCache(states) ==
    IF states = <<>> THEN EmptyMap
    ELSE LET n == Len(states)
             front == BuildCache(SubSeq(states, 1, n - 1))
             d == states[n]
         IN [k \in (DOMAIN front) \cup {d.entity_id} |->
                IF k = d.entity_id THEN from_dict(d) ELSE front[k]]

\* (variant: nothing is stored when there are no saved states)
LoadedCacheSkipsEmpty(o) ==
    IF o.kind = "none" THEN [present |-> FALSE, map |-> EmptyMap]
    ELSE [present |-> TRUE, map |-> BuildCache(o.data)]

\* _load_restore_cache after "await store.async_load()": what it leaves in
\* hass.data[DATA_RESTORE_CACHE] for what the store returned
LoadedCache(o) ==
    IF o.kind = "none" THEN [present |-> TRUE, map |-> EmptyMap]
    ELSE [present |-> TRUE, map |-> BuildCache(o.data)]

\* (variant: no phase test)
WindowAlwaysOpen(p) == TRUE

\* hass.state in (CoreState.starting, CoreState.not_running)
WindowOpen(p) == p \in {"starting", "not_running"}

\* (variant: no second test under the lock)
MustLoadAlways(present) == TRUE

\* "if DATA_RESTORE_CACHE not in hass.data" under the lock
MustLoad(present) == ~present

\* (variant: no except clause)
CatchesNothing(exc) == FALSE

\* "except HomeAssistantError": the only failure the store raises
Catches(exc) == exc = "HomeAssistantError"

\* (variant: async_restore_state has no phase check)
RestoreGateAlwaysOpen(p) == TRUE

\* async_restore_state goes on only while
\* hass.state in (CoreState.starting, CoreState.not_running)
RestoreGate(p) == p \in {"starting", "not_running"}

\* (variant: the lock is taken whether or not it is held)
LockAlwaysFree(held, queue) == TRUE

\* asyncio.Lock.acquire returns at once only when the lock is not held and
\* nobody is queued for it ("async with hass.data[_LOCK]")
CanAcquire(held, queue) == ~held /\ queue = <<>>

\* (variant: a load failure leaves the lock held)
HeldAfterError(kind) == kind = "error"

\* leaving the "async with" block releases the lock, by return or by
\* falling through
HeldAfterExit(kind) == FALSE

\* (variant: async_dump_states has no except clause)
SaveCatchesNothing(exc) == FALSE

\* "except HomeAssistantError as exc" around store.async_save
SaveCatches(exc) == exc = "HomeAssistantError"

\* (variant: the cache is emptied, not removed)
ClearedCache(present, m) == [present |-> present, map |-> EmptyMap]

\* remove_cache: hass.data.pop(DATA_RESTORE_CACHE, None)
PoppedCache(present, m) == [present |-> FALSE, map |-> EmptyMap]

\* (variant: no task is created)
NoDumpJob(n) == n

\* async_add_dump_states_job: hass.async_create_task(async_dump_states(hass));
\* n is the number of tasks awaiting store.async_save
AddDumpJob(n) == n + 1

\* (variant: the interval is tracked from async_setup on)
TimerAlwaysRunning(active) == TRUE

\* async_track_time_interval is called by async_setup_restore_state, so the
\* interval fires only once that listener has run
TimerRunning(active) == active

\* The host's clock, which drives async_track_time_interval, is cancelled
\* when the host stops: no tick is delivered after the stop event.
HostTimerRuns(stopped) == ~stopped

VARIABLES
    phase,            \* hass.state
    startFired,       \* EVENT_HOMEASSISTANT_START has been fired
    stopFired,        \* EVENT_HOMEASSISTANT_STOP has been fired
    setupListener,    \* async_setup_restore_state listens for the start event
    removeListeners,  \* remove_cache callbacks listening for the start event
    stopListener,     \* async_add_dump_states_job listens for the stop event
    timerActive,      \* async_track_time_interval is running
    ticks,            \* interval ticks delivered so far
    cacheIn,          \* DATA_RESTORE_CACHE in hass.data
    cache,            \* hass.data[DATA_RESTORE_CACHE]
    cacheFrom,        \* what the load that filled the cache had read
    storeIn,          \* DATA_RESTORE_STORAGE in hass.data
    lockIn,           \* _LOCK in hass.data
    locked,           \* the asyncio.Lock is held
    waiters,          \* callers suspended in lock.acquire(), in order
    store,            \* the content of the durable store
    store0,           \* what the store held when the process started
    pc,               \* position of each caller of async_get_last_state
    key,              \* entity_id each caller asks for
    buf,              \* what the caller's store.async_load() read
    early,            \* the call began in the window before a load completed
    via,              \* the call was made by async_restore_state
    ret,              \* the call that returned last, and what it returned
    calls,            \* calls issued so far
    loadCount,        \* store.async_load() invocations so far
    loadsByEarly,     \* invocations made by early calls
    firstOutcome,     \* what the first completed load read
    outcomes,         \* kinds of outcome of the completed loads
    loadBeforeStart,  \* a load was begun before the start event
    inflightDumps,    \* async_dump_states tasks awaiting store.async_save
    finishedDumps,    \* async_dump_states tasks that returned
    saveErrorLogged,  \* "Error saving current states" has been logged
    dumpRaised        \* an exception left an async_dump_states task

hostVars == <<phase, startFired, stopFired>>
listenVars == <<setupListener, removeListeners, stopListener, timerActive, ticks>>
dataVars == <<cacheIn, cache, cacheFrom, storeIn, lockIn, locked, waiters>>
callVars == <<pc, key, buf, early, via, ret, calls>>
loadVars == <<loadCount, loadsByEarly, firstOutcome, outcomes, loadBeforeStart>>
dumpVars == <<inflightDumps, finishedDumps, saveErrorLogged, dumpRaised>>
storeVars == <<store, store0>>
vars == <<hostVars, listenVars, dataVars, callVars, loadVars, dumpVars, storeVars>>

Init ==
    /\ phase = "not_running"
    /\ startFired = FALSE
    /\ stopFired = FALSE
    /\ setupListener = FALSE
    /\ removeListeners = 0
    /\ stopListener = FALSE
    /\ timerActive = FALSE
    /\ ticks = 0
    /\ cacheIn = FALSE
    /\ cache = EmptyMap
    /\ cacheFrom = Idle
    /\ storeIn = FALSE
    /\ lockIn = FALSE
    /\ locked = FALSE
    /\ waiters = <<>>
    /\ store \in InitialStores
    /\ store0 = store
    /\ pc = [c \in Callers |-> "idle"]
    /\ key = [c \in Callers |-> "a"]
    /\ buf = [c \in Callers |-> Idle]
    /\ early = [c \in Callers |-> FALSE]
    /\ via = [c \in Callers |-> FALSE]
    /\ ret = NoReturn
    /\ calls = 0
    /\ loadCount = 0
    /\ loadsByEarly = 0
    /\ firstOutcome = Idle
    /\ outcomes = {}
    /\ loadBeforeStart = FALSE
    /\ inflightDumps = 0
    /\ finishedDumps = 0
    /\ saveErrorLogged = FALSE
    /\ dumpRaised = FALSE

\* ------------------------------------------------------------------ host
\* bootstrap: async_setup(hass) registers the scheduler for the start event
AsyncSetup ==
    /\ ~setupListener
    /\ ~startFired
    /\ phase = "not_running"
    /\ setupListener' = TRUE
    /\ UNCHANGED <<hostVars, removeListeners, stopListener, timerActive, ticks,
                   dataVars, callVars, loadVars, dumpVars, storeVars>>

\* hass.state = CoreState.starting, before the start event is fired
SetStarting ==
    /\ phase = "not_running"
    /\ phase' = "starting"
    /\ UNCHANGED <<startFired, stopFired, listenVars, dataVars, callVars,
                   loadVars, dumpVars, storeVars>>

\* The host fires EVENT_HOMEASSISTANT_START while it is starting; every
\* listen_once listener registered at that moment runs once:
\* async_setup_restore_state (immediate dump, interval, stop listener) and
\* each remove_cache.
HassStart ==
    /\ ~startFired
    /\ phase \in {"not_running", "starting"}
    /\ phase' = "starting"
    /\ startFired' = TRUE
    /\ IF setupListener
         THEN /\ inflightDumps' = AddDumpJob(inflightDumps)
              /\ storeIn' = TRUE
              /\ timerActive' = TRUE
              /\ stopListener' = TRUE
         ELSE UNCHANGED <<inflightDumps, storeIn, timerActive, stopListener>>
    /\ setupListener' = FALSE
    /\ IF removeListeners > 0
         THEN /\ cacheIn' = PoppedCache(cacheIn, cache).present
              /\ cache' = PoppedCache(cacheIn, cache).map
              /\ cacheFrom' = Idle
         ELSE UNCHANGED <<cacheIn, cache, cacheFrom>>
    /\ removeListeners' = 0
    /\ UNCHANGED <<stopFired, ticks, lockIn, locked, waiters, callVars,
                   loadVars, finishedDumps, saveErrorLogged, dumpRaised, storeVars>>

\* startup has finished: hass.state = CoreState.running
SetRunning ==
    /\ phase = "starting"
    /\ startFired
    /\ phase' = "running"
    /\ UNCHANGED <<startFired, stopFired, listenVars, dataVars, callVars,
                   loadVars, dumpVars, storeVars>>

\* The host stops: hass.state = CoreState.stopping and
\* EVENT_HOMEASSISTANT_STOP is fired; the listen_once dump job runs once.
HassStop ==
    /\ phase = "running"
    /\ phase' = "stopping"
    /\ stopFired' = TRUE
    /\ IF stopListener
         THEN /\ inflightDumps' = AddDumpJob(inflightDumps)
              /\ storeIn' = TRUE
         ELSE UNCHANGED <<inflightDumps, storeIn>>
    /\ stopListener' = FALSE
    /\ UNCHANGED <<startFired, setupListener, removeListeners, timerActive, ticks,
                   cacheIn, cache, cacheFrom, lockIn, locked, waiters, callVars,
                   loadVars, finishedDumps, saveErrorLogged, dumpRaised, storeVars>>

\* async_track_time_interval fires async_add_dump_states_job
IntervalTick ==
    /\ TimerRunning(timerActive)
    /\ HostTimerRuns(stopFired)
    /\ ticks < MaxTicks
    /\ ticks' = ticks + 1
    /\ inflightDumps' = AddDumpJob(inflightDumps)
    /\ storeIn' = TRUE
    /\ UNCHANGED <<hostVars, setupListener, removeListeners, stopListener,
                   timerActive, cacheIn, cache, cacheFrom, lockIn, locked,
                   waiters, callVars, loadVars, finishedDumps, saveErrorLogged,
                   dumpRaised, storeVars>>

\* ------------------------------------------------------ async_dump_states
\* A task created by async_add_dump_states_job runs up to
\* "await store.async_save(...)" before anything it reads or writes can
\* change, so its creation and that first run are one step (AddDumpJob).
\* store.async_save returns: the snapshot of the live states is stored
DumpSaved ==
    /\ inflightDumps > 0
    /\ inflightDumps' = inflightDumps - 1
    /\ finishedDumps' = finishedDumps + 1
    /\ store' = Snapshot([i \in 1..Len(LiveStates) |-> as_dict(LiveStates[i])])
    /\ UNCHANGED <<hostVars, listenVars, dataVars, callVars, loadVars,
                   saveErrorLogged, dumpRaised, store0>>

\* store.async_save raises HomeAssistantError: logged, not raised
DumpFailed ==
    /\ inflightDumps > 0
    /\ inflightDumps' = inflightDumps - 1
    /\ finishedDumps' = finishedDumps + 1
    /\ IF SaveCatches("HomeAssistantError")
         THEN saveErrorLogged' = TRUE /\ UNCHANGED dumpRaised
         ELSE dumpRaised' = TRUE /\ UNCHANGED saveErrorLogged
    /\ UNCHANGED <<hostVars, listenVars, dataVars, callVars, loadVars, storeVars>>

\* -------------------------------------------------- async_get_last_state
\* _load_restore_cache up to "await store.async_load()": remove_cache is
\* registered for the start event and the store is read
BeginLoad(c) ==
    /\ removeListeners' = removeListeners + 1
    /\ storeIn' = TRUE
    /\ buf' = [buf EXCEPT ![c] = store]
    /\ loadCount' = loadCount + 1
    /\ loadsByEarly' = IF early'[c] THEN loadsByEarly + 1 ELSE loadsByEarly
    /\ loadBeforeStart' = (loadBeforeStart \/ ~startFired)
    /\ UNCHANGED <<firstOutcome, outcomes>>

\* the caller's coroutine has returned
Finished(c) ==
    /\ pc' = [pc EXCEPT ![c] = "idle"]
    /\ key' = [key EXCEPT ![c] = "a"]
    /\ buf' = [buf EXCEPT ![c] = Idle]
    /\ early' = [early EXCEPT ![c] = FALSE]
    /\ via' = [via EXCEPT ![c] = FALSE]

\* The call up to its first await or its return: async_get_last_state
\* called directly, or (v) through async_restore_state.  Calls are
\* interchangeable, so a new one is made by the first caller that is not
\* inside a call.
Call(c, k, v) ==
    /\ pc[c] = "idle"
    /\ \A d \in Callers : d < c => pc[d] # "idle"
    /\ calls < MaxCalls
    /\ calls' = calls + 1
    /\ IF v /\ ~RestoreGate(phase)
         THEN \* "Not restoring state": async_get_last_state is not called
              /\ ret' = NotRestoring(k)
              /\ UNCHANGED <<pc, key, buf, early, via, removeListeners,
                             storeIn, lockIn, locked, waiters, loadVars>>
         ELSE IF cacheIn
         THEN \* the cache is there: plain lookup
              /\ ret' = Deliver(v, Returned(k, DictGet(cache, k), FALSE, Idle,
                                            WindowOpen(phase), FALSE))
              /\ UNCHANGED <<pc, key, buf, early, via, removeListeners,
                             storeIn, lockIn, locked, waiters, loadVars>>
         ELSE IF ~WindowOpen(phase)
         THEN \* the cache can only be loaded during startup
              /\ ret' = Deliver(v, Returned(k, None, FALSE, Idle, FALSE, FALSE))
              /\ UNCHANGED <<pc, key, buf, early, via, removeListeners,
                             storeIn, lockIn, locked, waiters, loadVars>>
         ELSE /\ lockIn' = TRUE
              /\ key' = [key EXCEPT ![c] = k]
              /\ early' = [early EXCEPT ![c] = (firstOutcome = Idle)]
              /\ via' = [via EXCEPT ![c] = v]
              /\ UNCHANGED ret
              /\ IF CanAcquire(locked, waiters)
                   THEN \* the lock is free: acquired without suspending
                        /\ locked' = TRUE
                        /\ pc' = [pc EXCEPT ![c] = "loading"]
                        /\ BeginLoad(c)
                        /\ UNCHANGED waiters
                   ELSE /\ waiters' = Append(waiters, c)
                        /\ pc' = [pc EXCEPT ![c] = "waiting"]
                        /\ UNCHANGED <<buf, removeListeners, storeIn, locked,
                                       loadVars>>
    /\ UNCHANGED <<hostVars, setupListener, stopListener, timerActive, ticks,
                   cacheIn, cache, cacheFrom, dumpVars, storeVars>>

\* a suspended caller is woken by the release of the lock and acquires it
Resume(c) ==
    /\ pc[c] = "waiting"
    /\ ~locked
    /\ waiters # <<>>
    /\ Head(waiters) = c
    /\ waiters' = Tail(waiters)
    /\ IF MustLoad(cacheIn)
         THEN /\ locked' = TRUE
              /\ pc' = [pc EXCEPT ![c] = "loading"]
              /\ UNCHANGED <<key, early, via, ret>>
              /\ BeginLoad(c)
         ELSE \* leaves the lock at once and looks the key up
              /\ Finished(c)
              /\ ret' = Deliver(via[c], Returned(key[c], DictGet(cache, key[c]),
                                                 FALSE, Idle, TRUE, early[c]))
              /\ UNCHANGED <<removeListeners, storeIn, locked, loadVars>>
    /\ UNCHANGED <<hostVars, setupListener, stopListener, timerActive, ticks,
                   cacheIn, cache, cacheFrom, lockIn, calls, dumpVars, storeVars>>

\* store.async_load() responds; the caller runs to its return
LoadDone(c) ==
    /\ pc[c] = "loading"
    /\ Finished(c)
    /\ locked' = HeldAfterExit(buf[c].kind)
    /\ outcomes' = outcomes \cup {buf[c].kind}
    /\ firstOutcome' = IF firstOutcome = Idle THEN buf[c] ELSE firstOutcome
    /\ IF buf[c].kind = "error"
         THEN \* HomeAssistantError leaves _load_restore_cache
              /\ UNCHANGED <<cacheIn, cache, cacheFrom>>
              /\ ret' = Deliver(via[c],
                                Returned(key[c], None,
                                         ~Catches("HomeAssistantError"),
                                         buf[c], TRUE, early[c]))
         ELSE /\ cacheIn' = LoadedCache(buf[c]).present
              /\ cache' = LoadedCache(buf[c]).map
              /\ cacheFrom' = buf[c]
              /\ ret' = Deliver(via[c],
                                Returned(key[c], DictGet(cache', key[c]), FALSE,
                                         buf[c], TRUE, early[c]))
    /\ UNCHANGED <<hostVars, listenVars, storeIn, lockIn, waiters, calls,
                   loadCount, loadsByEarly, loadBeforeStart, dumpVars, storeVars>>

Next ==
    \/ AsyncSetup
    \/ SetStarting
    \/ HassStart
    \/ SetRunning
    \/ HassStop
    \/ IntervalTick
    \/ DumpSaved
    \/ DumpFailed
    \/ \E c \in Callers, k \in Keys : Call(c, k, FALSE)
    \/ \E c \in Callers : Resume(c)
    \/ \E c \in Callers : LoadDone(c)

Spec == Init /\ [][Next]_vars

\* Whether a call returns, and whether it returns a record, depends on the
\* kind of response of the load and on the key being there, not on the
\* other records read: one store of each kind stands for the rest.
StoreKinds ==
    {NoFile, Broken, Snapshot(<<>>), Snapshot(<<as_dict(<<"a", "on">>)>>)}

KindInit == Init /\ store \in StoreKinds

\* Every store.async_load() eventually responds, and the event loop
\* eventually runs a caller that the release of the lock has woken.
FairSpec ==
    /\ KindInit
    /\ [][Next]_vars
    /\ \A c \in Callers : WF_vars(LoadDone(c)) /\ WF_vars(Resume(c))

\* The same program with entities among the callers: a call is made to
\* async_get_last_state directly or through async_restore_state.
RestoreNext ==
    \/ AsyncSetup
    \/ SetStarting
    \/ HassStart
    \/ SetRunning
    \/ HassStop
    \/ IntervalTick
    \/ DumpSaved
    \/ DumpFailed
    \/ \E c \in Callers, k \in Keys, v \in BOOLEAN : Call(c, k, v)
    \/ \E c \in Callers : Resume(c)
    \/ \E c \in Callers : LoadDone(c)

RestoreSpec == KindInit /\ [][RestoreNext]_vars

\* ---------------------------------------------------------------- claims
\* the record of key k in snapshot s as the caller should get it back, by
\* position: the State of the last record with that key, None without one
UniqueKeys(s) == \A i, j \in 1..Len(s) : s[i].entity_id = s[j].entity_id => i = j

Positions(s, k) == {i \in 1..Len(s) : s[i].entity_id = k}

Restored(o, k) ==
    IF o.kind = "data" /\ Positions(o.data, k) # {}
      THEN LET i == CHOOSE x \in Positions(o.data, k) :
                        \A y \in Positions(o.data, k) : y <= x
           IN <<k, o.data[i].state>>
      ELSE None

\* C1 - single-flight: the calls issued in the startup window before the
\* first load has completed invoke store.async_load() once between them, and
\* each returns what that one load read for its key (None when it read no
\* snapshot or failed).
SingleFlight ==
    /\ loadsByEarly <= 1
    /\ (ret.seen /\ ret.early) => ret.result = Restored(firstOutcome, ret.key)

\* C2 - at most one load per process lifetime: store.async_load() is never
\* invoked a second time.
AtMostOneLoad == loadCount <= 1

\* C3 - window closure: a call that begins when the phase is neither starting
\* nor not_running returns None, whatever the key.
WindowClosure == (ret.seen /\ ~ret.open) => ret.result = None

\* C4 - fail-open on read error: while every store.async_load() that has
\* responded raised HomeAssistantError, every call that returns returns
\* None, and no exception is raised to its caller.
FailOpenOnReadError ==
    outcomes = {"error"} => (~ret.raised /\ ret.result = None)

\* C4 witness: a load has failed, a caller that was queued on the lock behind
\* it has run its own failing load and returned, and nobody is waiting.
FailOpenOnReadErrorWitness ==
    /\ outcomes = {"error"}
    /\ loadCount >= 2
    /\ ret.seen
    /\ ret.early
    /\ ret.buf.kind = "error"
    /\ \A c \in Callers : pc[c] = "idle"

\* C5 - fail-open on missing data: while every store.async_load() that has
\* responded returned no snapshot, the cache, where present, is the empty
\* mapping, it is present until the start event removes it, every call that
\* returns returns None, and no exception is raised to its caller.
FailOpenOnMissingData ==
    outcomes = {"none"} =>
        /\ cacheIn => cache = EmptyMap
        /\ ~startFired => cacheIn
        /\ ~ret.raised
        /\ ret.result = None

\* C5 witness: the load found no snapshot, the cache is the empty mapping and
\* a later call, for another key, has been answered from it.
FailOpenOnMissingDataWitness ==
    /\ outcomes = {"none"}
    /\ cacheIn
    /\ cache = EmptyMap
    /\ calls >= 2
    /\ ret.seen
    /\ ret.key = "b"
    /\ ret.buf = Idle

\* C6 - round trip: a call whose load read a snapshot with unique keys
\* returns the State of the record saved under its key, or None when the
\* snapshot has no such record; and the cache that load filled maps exactly
\* the keys of the snapshot, each to the State of its record.
RoundTrip ==
    /\ (ret.seen /\ ret.buf.kind = "data" /\ UniqueKeys(ret.buf.data)) =>
          ret.result = Restored(ret.buf, ret.key)
    /\ (cacheIn /\ cacheFrom.kind = "data" /\ UniqueKeys(cacheFrom.data)) =>
          /\ DOMAIN cache = {cacheFrom.data[i].entity_id : i \in 1..Len(cacheFrom.data)}
          /\ \A i \in 1..Len(cacheFrom.data) :
                cache[cacheFrom.data[i].entity_id] =
                    <<cacheFrom.data[i].entity_id, cacheFrom.data[i].state>>

\* C6 witness: a call has loaded a snapshot of two records with different
\* keys during the startup window and got its record back.
RoundTripWitness ==
    /\ ret.seen
    /\ ret.open
    /\ ret.buf.kind = "data"
    /\ Len(ret.buf.data) = 2
    /\ UniqueKeys(ret.buf.data)
    /\ ret.result # None
    /\ cacheIn
    /\ cacheFrom = ret.buf

\* C7 - dumps never overlap: at most one async_dump_states is awaiting its
\* store.async_save at any time.
DumpsNeverOverlap == inflightDumps <= 1

\* C8 - scheduler cadence: the dumps started so far are one for the start
\* event that ran the scheduler setup, one for each interval tick and one for
\* the stop event, and no other.
DumpsStarted == inflightDumps + finishedDumps

SchedulerCadence ==
    DumpsStarted = (IF timerActive THEN 1 ELSE 0)
                   + ticks
                   + (IF timerActive /\ stopFired THEN 1 ELSE 0)

\* C8 witness: the setup has run, a tick and the stop event have been
\* delivered, and each has started its dump.
SchedulerCadenceWitness ==
    /\ timerActive
    /\ ticks >= 1
    /\ stopFired
    /\ DumpsStarted = ticks + 2

\* C9 as claimed - populated is terminal: once the cache is in hass.data, no
\* step changes its contents or takes it out.
PopulatedIsTerminal == [][cacheIn => (cacheIn' /\ cache' = cache)]_vars

\* C9 as amended - the populated cache is read-only while it is in
\* hass.data: a step either leaves it as it is or is the delivery of the
\* start event, which takes it out.
PopulatedReadOnlyUntilStart ==
    [][cacheIn => \/ (cacheIn' /\ cache' = cache)
                  \/ (~cacheIn' /\ ~startFired /\ startFired')]_vars

\* C9 witness: a non-empty cache is in hass.data after the start event, a
\* dump has finished and a later call has looked its key up in the cache.
PopulatedReadOnlyWitness ==
    /\ cacheIn
    /\ cache # EmptyMap
    /\ startFired
    /\ finishedDumps >= 1
    /\ ret.seen
    /\ ret.buf = Idle
    /\ ret.result # None

\* C10 - cache release at host start: when a load was begun before the start
\* event, the cache is not in hass.data in any state after the start event
\* has been delivered.
CacheReleasedAtStart == (startFired /\ loadBeforeStart) => ~cacheIn

\* C11 - duplicate keys: when the snapshot a load read has several records
\* with one key, the cache maps that key to the State of the record that
\* comes last, and the call that made the load gets that State back.
DuplicateKeysLastWins ==
    /\ (ret.seen /\ ret.buf.kind = "data" /\ ~UniqueKeys(ret.buf.data)) =>
          ret.result = Restored(ret.buf, ret.key)
    /\ (cacheIn /\ cacheFrom.kind = "data" /\ ~UniqueKeys(cacheFrom.data)) =>
          \A k \in Keys :
              Positions(cacheFrom.data, k) # {} =>
                  /\ k \in DOMAIN cache
                  /\ cache[k] = Restored(cacheFrom, k)

\* C11 witness: a call has loaded a snapshot whose two records share its key
\* with different payloads, and got the second one back.
DuplicateKeysWitness ==
    /\ ret.seen
    /\ ret.buf.kind = "data"
    /\ Len(ret.buf.data) = 2
    /\ ret.buf.data[1].entity_id = ret.key
    /\ ret.buf.data[2].entity_id = ret.key
    /\ ret.buf.data[1].state # ret.buf.data[2].state
    /\ ret.result = <<ret.key, ret.buf.data[2].state>>
    /\ cacheIn
    /\ cacheFrom = ret.buf

RestoredFromPreviousSession ==
    (ret.seen /\ ret.result # None) => ret.result = Restored(store0, ret.key)

\* C15 - save failure is swallowed: no exception ever leaves an
\* async_dump_states task; the step in which a save fails changes neither
\* the listeners nor the interval; and after a failure has been logged a tick
\* and the stop event each still start one dump.
SaveFailureSwallowed ==
    /\ [](~dumpRaised)
    /\ [][DumpFailed => (saveErrorLogged' /\ UNCHANGED <<hostVars, listenVars>>)]_vars
    /\ [][(saveErrorLogged /\ ticks' = ticks + 1) =>
              DumpsStarted' = DumpsStarted + 1]_vars
    /\ [][(saveErrorLogged /\ stopListener /\ ~stopFired /\ stopFired') =>
              DumpsStarted' = DumpsStarted + 1]_vars

\* C15 witness: a save has failed and been logged, and with that behind it a
\* tick and the stop event have been delivered and a dump is awaiting its
\* save.
SaveFailureSwallowedWitness ==
    /\ saveErrorLogged
    /\ ~dumpRaised
    /\ finishedDumps >= 1
    /\ ticks >= 1
    /\ stopFired
    /\ inflightDumps >= 1
    /\ DumpsStarted = ticks + 2

\* C16 - frame of a closed-window lookup: a call made while the phase is
\* neither starting nor not_running invokes no store load, neither creates
\* nor acquires the lock, suspends nobody, and leaves the cache, present or
\* absent, as it was.
ClosedWindowFrame ==
    [][(calls' = calls + 1 /\ phase \in {"running", "stopping"}) =>
          /\ UNCHANGED <<loadCount, lockIn, locked, waiters>>
          /\ UNCHANGED <<cacheIn, cache, cacheFrom>>
          /\ UNCHANGED <<pc, buf, removeListeners>>]_vars

\* C16 witness: a call made in the closed window has returned, with no cache,
\* no lock and no load ever made.
ClosedWindowFrameWitness ==
    /\ ret.seen
    /\ ~ret.open
    /\ phase \in {"running", "stopping"}
    /\ ~cacheIn
    /\ ~lockIn
    /\ loadCount = 0

\* C17 - no deadlock: when every load responds, every call that has not
\* returned eventually returns and a held lock is eventually released, also
\* after a failed load and with callers queued on the lock.
NoDeadlock ==
    /\ \A c \in Callers : (pc[c] # "idle") ~> (pc[c] = "idle")
    /\ locked ~> ~locked
    /\ (waiters # <<>>) ~> (waiters = <<>>)

\* C17 witness: a load has failed while a caller was queued on the lock, that
\* caller has since returned, and the lock is free.
NoDeadlockWitness ==
    /\ "error" \in outcomes
    /\ loadCount >= 2
    /\ ~locked
    /\ waiters = <<>>
    /\ \A c \in Callers : pc[c] = "idle"

\* C18 - mutual exclusion of loads: at most one caller is inside
\* _load_restore_cache, and whoever is there holds the lock.
LoadsExclusive ==
    /\ Cardinality({c \in Callers : pc[c] = "loading"}) <= 1
    /\ (\E c \in Callers : pc[c] = "loading") => (locked /\ lockIn)

\* C18 witness: after a failed load, a second load is in flight, made by a
\* caller that had to queue for the lock.
LoadsExclusiveWitness ==
    /\ "error" \in outcomes
    /\ loadCount = 2
    /\ \E c \in Callers : pc[c] = "loading"

\* C19 - entity restore gating: a call of async_restore_state invokes the
\* entity's callback at most once, and only when the phase was starting or
\* not_running as the call began and async_get_last_state returned a record;
\* a call that fails the phase check looks nothing up and loads nothing.
EntityRestoreGating ==
    /\ [](/\ ret.restored \in {0, 1}
          /\ ret.restored = 1 =>
                (ret.via /\ ret.open /\ ret.looked /\ ret.result # None)
          /\ (ret.via /\ ~ret.open) => (~ret.looked /\ ret.restored = 0))
    /\ [][(calls' = calls + 1 /\ ret'.via /\ phase \in {"running", "stopping"}) =>
              /\ ~ret'.looked
              /\ UNCHANGED <<loadCount, lockIn, locked, waiters, pc>>]_vars

\* C19 witness: async_restore_state, begun in the window, made the load
\* itself, got a record back and handed it to the entity.
EntityRestoreGatingWitness ==
    /\ ret.seen
    /\ ret.via
    /\ ret.open
    /\ ret.buf.kind = "data"
    /\ ret.result # None
    /\ ret.restored = 1

====
